---- MODULE Spec2Model ----
(***************************************************************************)
(* Model of DockerHubCleaner (cleaner.go): one run of main().              *)
(*                                                                         *)
(* The run is a straight line: read the environment, load the skip list,   *)
(* log in, fetch every page of the tag listing, sort newest first, apply   *)
(* KEEP_COUNT, apply MAX_SIZE_MB, print the summary.  The registry is an   *)
(* external service: what it answers to each request (a page of tags and a *)
(* next-page pointer, the status of a DELETE) is chosen nondeterministically*)
(* at the step that issues the request.                                    *)
(*                                                                         *)
(* Strings read from the environment are sequences of one-character        *)
(* strings, so that strconv.Atoi / strconv.ParseInt are modelled by what   *)
(* they compute.  Timestamps are integers (a larger one is later).  Sizes  *)
(* are bytes; every value of the model stays far inside the int64 range,   *)
(* so the arithmetic of sumSize and of maxSizeMB*1024*1024 is exact.       *)
(***************************************************************************)
EXTENDS Integers, Sequences, FiniteSets, TLC

(***************************************************************************)
(* Bounds of the model.                                                    *)
(***************************************************************************)
MaxTags == 3          \* most tags the registry holds for the repository
MaxTime == 2          \* last_updated ranges over 1..MaxTime
PageSize == 1         \* tags per listing page (page_size=100 in the code)

(***************************************************************************)
(* Program constants.                                                      *)
(***************************************************************************)
BytesPerMB == 1048576             \* 1024*1024, cleaner.go:215
StatusOK == 200                   \* cleaner.go:48, cleaner.go:95
StatusNoContent == 204            \* cleaner.go:76

NameList == <<"a", "b", "c", "d", "e">>
Names == {NameList[j] : j \in 1..MaxTags}
Times == 1..MaxTime
Sizes == {50 * BytesPerMB, 200 * BytesPerMB}

\* type Tag struct { Name; LastUpdated; FullSize }
Tag == [Name : Names, LastUpdated : Times, FullSize : Sizes]

Range(s) == {s[j] : j \in 1..Len(s)}
Min(a, b) == IF a < b THEN a ELSE b

(***************************************************************************)
(* strconv.Atoi / strconv.ParseInt(s, 10, 64) on a string given as a       *)
(* sequence of characters: an optional sign followed by one or more        *)
(* decimal digits; anything else is a syntax error.                        *)
(***************************************************************************)
Digits == {"0", "1", "2", "3", "4", "5", "6", "7", "8", "9"}
DigitVal(c) ==
    CASE c = "0" -> 0 [] c = "1" -> 1 [] c = "2" -> 2 [] c = "3" -> 3
      [] c = "4" -> 4 [] c = "5" -> 5 [] c = "6" -> 6 [] c = "7" -> 7
      [] c = "8" -> 8 [] c = "9" -> 9

RECURSIVE DigitsValue(_)
DigitsValue(s) ==
    IF s = <<>> THEN 0
    ELSE 10 * DigitsValue(SubSeq(s, 1, Len(s) - 1)) + DigitVal(s[Len(s)])

\* the result pair (value, err) of strconv.Atoi
Atoi(s) ==
    LET signed == s # <<>> /\ s[1] \in {"-", "+"}
        body   == IF signed THEN Tail(s) ELSE s
    IN  IF body = <<>> \/ \E j \in 1..Len(body) : body[j] \notin Digits
        THEN [err |-> TRUE, val |-> 0]
        ELSE [err |-> FALSE,
              val |-> IF signed /\ s[1] = "-" THEN 0 - DigitsValue(body)
                      ELSE DigitsValue(body)]

\* strconv.ParseInt(s, 10, 64): the same syntax as Atoi
ParseInt(s) == Atoi(s)

(***************************************************************************)
(* Inputs of a run.                                                        *)
(***************************************************************************)
\* values of the KEEP_COUNT environment variable (<<>> is "unset")
KeepCountInputs == {<<>>, <<"-", "1">>, <<"0">>, <<"1">>, <<"2">>, <<"x">>}
\* values of the MAX_SIZE_MB environment variable; unset (<<>>) leaves
\* maxSizeMB at -1 (line 162), the value that "-1" parses to
MaxSizeInputs == {<<"-", "1">>, <<"1", "5", "0">>, <<"x">>}
\* what the registry answers to a DELETE: a transport error, or a status
DeleteOutcomes == {[neterr |-> TRUE, status |-> 0],
                   [neterr |-> FALSE, status |-> StatusNoContent],
                   [neterr |-> FALSE, status |-> 404]}

VARIABLES
    pc,            \* position of main(): "env", "skiplist", "login", "fetch",
                   \* "sort", "count", "size", "done", "aborted"
    requiredEnv,   \* DOCKER_USERNAME, DOCKER_PASSWORD, DOCKER_REPOSITORY all set
    keepCountStr,  \* os.Getenv("KEEP_COUNT")
    maxSizeStr,    \* os.Getenv("MAX_SIZE_MB")
    skipFile,      \* os.Getenv("SKIP_TAGS_FILE") is set
    keepCount,     \* main: keepCount
    maxSizeMB,     \* main: maxSizeMB
    skipTags,      \* main: skipTags (the keys of the map)
    urlStr,        \* getTags: urlStr, as the number of the page it points to (0 is "")
    tags,          \* getTags: tags, then main: tags
    inventory,     \* the array behind main's tags: what line 195 left, whole,
                   \* while tags is resliced by lines 210, 220 and 228
    i,             \* main: position of the range loop over toDelete
    deleteReqs,    \* the DELETE requests issued, each with deleteTag's result
    out,           \* the error lines and the summary line the run wrote
    fatal          \* which log.Fatal ended the run ("" while it has not)

vars == <<pc, requiredEnv, keepCountStr, maxSizeStr, skipFile, keepCount,
          maxSizeMB, skipTags, urlStr, tags, inventory, i, deleteReqs, out, fatal>>

NoUrl == 0

Init ==
    /\ pc = "env"
    /\ requiredEnv \in BOOLEAN
    /\ keepCountStr \in KeepCountInputs
    /\ maxSizeStr \in MaxSizeInputs
    /\ skipFile \in BOOLEAN
    /\ keepCount = 0
    /\ maxSizeMB = -1
    /\ skipTags = {}
    /\ urlStr = NoUrl
    /\ tags = <<>>
    /\ inventory = <<>>
    /\ i = 0
    /\ deleteReqs = <<>>
    /\ out = <<>>
    /\ fatal = ""

\* log.Fatal / log.Fatalf: the process exits
Fatal(why) ==
    /\ pc' = "aborted"
    /\ fatal' = why

(***************************************************************************)
(* main, lines 140-168: read the environment and parse the two limits.     *)
(***************************************************************************)
\* the outcome of lines 151-160: the value of keepCount, or the fatal error
ParseKeepCount(s) ==
    IF s # <<>>
    THEN LET r == Atoi(s)
         IN  IF r.err \/ r.val < 0
             THEN [fatal |-> TRUE, val |-> 0]
             ELSE [fatal |-> FALSE, val |-> r.val]
    ELSE [fatal |-> FALSE, val |-> -1]

\* the outcome of lines 162-168: the value of maxSizeMB, or the fatal error
ParseMaxSize(s) ==
    IF s # <<>>
    THEN LET r == ParseInt(s)
         IN  IF r.err
             THEN [fatal |-> TRUE, val |-> 0]
             ELSE [fatal |-> FALSE, val |-> r.val]
    ELSE [fatal |-> FALSE, val |-> -1]

ReadConfig ==
    /\ pc = "env"
    /\ IF ~requiredEnv
       THEN Fatal("env") /\ UNCHANGED <<keepCount, maxSizeMB>>
       ELSE IF ParseKeepCount(keepCountStr).fatal
       THEN Fatal("keep_count") /\ UNCHANGED <<keepCount, maxSizeMB>>
       ELSE IF ParseMaxSize(maxSizeStr).fatal
       THEN /\ Fatal("max_size")
            /\ keepCount' = ParseKeepCount(keepCountStr).val
            /\ UNCHANGED maxSizeMB
       ELSE /\ pc' = "skiplist"
            /\ keepCount' = ParseKeepCount(keepCountStr).val
            /\ maxSizeMB' = ParseMaxSize(maxSizeStr).val
            /\ UNCHANGED fatal
    /\ UNCHANGED <<requiredEnv, keepCountStr, maxSizeStr, skipFile, skipTags,
                   urlStr, tags, i, deleteReqs, out, inventory>>

(***************************************************************************)
(* loadSkipList and main, lines 170-178.  The file is a sequence of lines, *)
(* each already trimmed of surrounding white space: "" is a blank line.    *)
(***************************************************************************)
SkipFileLines == Names \cup {""}
SkipFiles == UNION {[1..n -> SkipFileLines] : n \in 0..MaxTags}

\* loadSkipList on a readable file: the non-blank lines
loadSkipList(lines) == {lines[j] : j \in {k \in 1..Len(lines) : lines[k] # ""}}

LoadSkipList ==
    /\ pc = "skiplist"
    /\ IF skipFile
       THEN \/ \E lines \in SkipFiles :
                /\ skipTags' = loadSkipList(lines)
                /\ pc' = "login"
                /\ UNCHANGED fatal
            \/ \* os.Open or the scanner failed
               /\ Fatal("skiplist")
               /\ UNCHANGED skipTags
       ELSE /\ pc' = "login"
            /\ UNCHANGED <<skipTags, fatal>>
    /\ UNCHANGED <<requiredEnv, keepCountStr, maxSizeStr, skipFile, keepCount,
                   maxSizeMB, urlStr, tags, i, deleteReqs, out, inventory>>

(***************************************************************************)
(* login and main, lines 180-184.                                          *)
(***************************************************************************)
Login ==
    /\ pc = "login"
    /\ \/ /\ pc' = "fetch"
          /\ urlStr' = 1          \* getTags, line 35: the URL of the first page
          /\ UNCHANGED fatal
       \/ /\ Fatal("login")
          /\ UNCHANGED urlStr
    /\ UNCHANGED <<requiredEnv, keepCountStr, maxSizeStr, skipFile, keepCount,
                   maxSizeMB, skipTags, tags, i, deleteReqs, out, inventory>>

(***************************************************************************)
(* getTags, lines 33-61, and main, lines 186-190.  One step per request of *)
(* the loop.  The registry lists the tags in pages of PageSize; every page *)
(* but the last is full and carries the pointer to the next one.  The tags *)
(* are named in listing order (names are unique within a repository).      *)
(***************************************************************************)
\* the pages the registry can answer with when `have` tags were listed before
Pages(have) ==
    LET room  == MaxTags - have
        mk(r) == [j \in 1..r |-> NameList[have + j]]
        tagsNamed(ns) ==
            {t \in [1..Len(ns) -> Tag] : \A j \in 1..Len(ns) : t[j].Name = ns[j]}
        last  == UNION {tagsNamed(mk(r)) :
                          r \in (IF have = 0 THEN 0 ELSE 1)..Min(PageSize, room)}
        full  == IF room > PageSize THEN tagsNamed(mk(PageSize)) ELSE {}
    IN  {[Results |-> t, Next |-> FALSE] : t \in last}
          \cup {[Results |-> t, Next |-> TRUE] : t \in full}

\* what a GET of a listing page can come to: the three ways to fail
\* (lines 43, 48, 53) or a decoded TagsResponse
FetchFailures == {[neterr |-> TRUE, status |-> 0, decoded |-> FALSE],
                  [neterr |-> FALSE, status |-> 500, decoded |-> FALSE],
                  [neterr |-> FALSE, status |-> StatusOK, decoded |-> FALSE]}

\* lines 42-55: does this answer make getTags return an error?
FetchError(resp) == resp.neterr \/ resp.status # StatusOK \/ ~resp.decoded

\* lines 57-58 on a page that decoded
FetchPageOK ==
    /\ pc = "fetch"
    /\ urlStr # NoUrl
    /\ \E page \in Pages(Len(tags)) :
         LET resp == [neterr |-> FALSE, status |-> StatusOK, decoded |-> TRUE]
         IN  /\ ~FetchError(resp)
             /\ tags' = tags \o page.Results
             /\ urlStr' = IF page.Next THEN urlStr + 1 ELSE NoUrl
             \* line 38: the loop ends on an empty cursor, getTags returns tags
             /\ pc' = IF urlStr' = NoUrl THEN "sort" ELSE "fetch"
    /\ UNCHANGED <<requiredEnv, keepCountStr, maxSizeStr, skipFile, keepCount,
                   maxSizeMB, skipTags, i, deleteReqs, out, fatal, inventory>>

\* a slip: the error of getTags is dropped and main goes on with the pages read
OnFetchErrorIgnored(partial) == [pc |-> "sort", fatal |-> "", tags |-> partial]

\* what main does with (tags, err) when getTags failed, lines 188-190
OnFetchError(partial) == [pc |-> "aborted", fatal |-> "fetch", tags |-> <<>>]

FetchPageFail ==
    /\ pc = "fetch"
    /\ urlStr # NoUrl
    /\ \E resp \in FetchFailures :
         /\ FetchError(resp)
         /\ pc' = OnFetchError(tags).pc
         /\ fatal' = OnFetchError(tags).fatal
         /\ tags' = OnFetchError(tags).tags
    /\ UNCHANGED <<requiredEnv, keepCountStr, maxSizeStr, skipFile, keepCount,
                   maxSizeMB, skipTags, urlStr, i, deleteReqs, out, inventory>>

(***************************************************************************)
(* main, lines 192-195: sort.Slice, newest first.  sort.Slice is not       *)
(* stable: the result is any permutation in which no element is followed   *)
(* by one that is less (here: strictly newer) than it.                     *)
(***************************************************************************)
\* a slip: the comparison the other way round (oldest first)
Before(t, u) == t.LastUpdated < u.LastUpdated

\* the less function of line 194: tags[i].LastUpdated.After(tags[j].LastUpdated)
After(t, u) == t.LastUpdated > u.LastUpdated

Perms(s) ==
    {p \in [1..Len(s) -> Range(s)] : \A x \in Range(s) : \E j \in 1..Len(s) : p[j] = x}

SortSlice(s) ==
    {p \in Perms(s) : \A a, b \in 1..Len(s) : a < b => ~After(p[b], p[a])}

Sort ==
    /\ pc = "sort"
    /\ tags' \in SortSlice(tags)
    /\ inventory' = tags'
    /\ pc' = "count"
    /\ i' = 0
    /\ UNCHANGED <<requiredEnv, keepCountStr, maxSizeStr, skipFile, keepCount,
                   maxSizeMB, skipTags, urlStr, deleteReqs, out, fatal>>

(***************************************************************************)
(* deleteTag, lines 64-81, and what main does with its error.              *)
(***************************************************************************)
\* does deleteTag return an error on this answer? (lines 71, 76)
deleteTag(resp) == resp.neterr \/ resp.status # StatusNoContent

\* a DELETE request the run issued, and whether deleteTag returned an error
Request(name, resp) == [name |-> name, err |-> deleteTag(resp)]

\* a slip: log.Fatal instead of log.Println, the first failed DELETE ends the run
OnDeleteErrorFatal(next, o, name) ==
    [pc |-> "aborted", out |-> Append(o, [kind |-> "error", name |-> name])]

\* a slip: the error of deleteTag is dropped without a line in the log
OnDeleteErrorSilent(next, o, name) == [pc |-> next, out |-> o]

\* lines 206-208 and 225-227: the error is logged and the loop goes on
OnDeleteError(next, o, name) ==
    [pc |-> next, out |-> Append(o, [kind |-> "error", name |-> name])]

\* a slip: the skip list is never consulted
NeverInSkipTags(name) == FALSE

\* the skip-list lookup of lines 201 and 217
InSkipTags(name) == name \in skipTags

\* sumSize, lines 107-113
RECURSIVE sumSize(_)
sumSize(ts) ==
    IF ts = <<>> THEN 0 ELSE sumSize(SubSeq(ts, 1, Len(ts) - 1)) + ts[Len(ts)].FullSize

(***************************************************************************)
(* main, lines 197-211: KEEP_COUNT.                                        *)
(***************************************************************************)
\* line 198
CountApplies == keepCount >= 0 /\ Len(tags) > keepCount
\* line 199: toDelete := tags[keepCount:]
toDelete == SubSeq(tags, keepCount + 1, Len(tags))
\* line 210: tags = tags[:keepCount]
CountKeep(ts, k) == SubSeq(ts, 1, k)

CountNotApplied ==
    /\ pc = "count"
    /\ ~CountApplies
    /\ pc' = "size"
    /\ UNCHANGED <<requiredEnv, keepCountStr, maxSizeStr, skipFile, keepCount,
                   maxSizeMB, skipTags, urlStr, tags, i, deleteReqs, out, fatal, inventory>>

\* lines 201-204
CountSkipProtected ==
    /\ pc = "count"
    /\ CountApplies
    /\ i < Len(toDelete)
    /\ InSkipTags(toDelete[i + 1].Name)
    /\ i' = i + 1
    /\ UNCHANGED <<pc, requiredEnv, keepCountStr, maxSizeStr, skipFile, keepCount,
                   maxSizeMB, skipTags, urlStr, tags, deleteReqs, out, fatal, inventory>>

\* lines 205-208
CountDelete ==
    /\ pc = "count"
    /\ CountApplies
    /\ i < Len(toDelete)
    /\ ~InSkipTags(toDelete[i + 1].Name)
    /\ \E resp \in DeleteOutcomes :
         LET name == toDelete[i + 1].Name
         IN  /\ deleteReqs' = Append(deleteReqs, Request(name, resp))
             /\ IF deleteTag(resp)
                THEN /\ pc' = OnDeleteError("count", out, name).pc
                     /\ out' = OnDeleteError("count", out, name).out
                ELSE UNCHANGED <<pc, out>>
    /\ i' = i + 1
    /\ UNCHANGED <<requiredEnv, keepCountStr, maxSizeStr, skipFile, keepCount,
                   maxSizeMB, skipTags, urlStr, tags, fatal, inventory>>

\* line 210, after the loop
CountEnd ==
    /\ pc = "count"
    /\ CountApplies
    /\ i = Len(toDelete)
    /\ tags' = CountKeep(tags, keepCount)
    /\ pc' = "size"
    /\ UNCHANGED <<requiredEnv, keepCountStr, maxSizeStr, skipFile, keepCount,
                   maxSizeMB, skipTags, urlStr, i, deleteReqs, out, fatal, inventory>>

(***************************************************************************)
(* main, lines 213-233: MAX_SIZE_MB and the summary.                       *)
(***************************************************************************)
\* a slip: >= for >, a repository exactly at the limit loses a tag
SizeLoopCondAtLeast(ts) ==
    /\ maxSizeMB > 0
    /\ sumSize(ts) >= maxSizeMB * BytesPerMB
    /\ Len(ts) > 0

\* line 214 and the loop condition of line 215
SizeLoopCond(ts) ==
    /\ maxSizeMB > 0
    /\ sumSize(ts) > maxSizeMB * BytesPerMB
    /\ Len(ts) > 0

\* line 216
Oldest(ts) == ts[Len(ts)]
\* a slip: `continue` without reslicing, the same oldest tag comes up again
KeepOldest(ts) == ts

\* a slip: the protected tag is put aside at the head of the slice, where
\* its size still counts
RotateOldest(ts) == <<ts[Len(ts)]>> \o SubSeq(ts, 1, Len(ts) - 1)

\* line 220: the protected tag leaves the slice
SkipOldest(ts) == SubSeq(ts, 1, Len(ts) - 1)
\* line 228: the deleted tag leaves the slice
RemoveOldest(ts) == SubSeq(ts, 1, Len(ts) - 1)

\* lines 217-222
SizeSkipProtected ==
    /\ pc = "size"
    /\ SizeLoopCond(tags)
    /\ InSkipTags(Oldest(tags).Name)
    /\ tags' = SkipOldest(tags)
    /\ UNCHANGED <<pc, requiredEnv, keepCountStr, maxSizeStr, skipFile, keepCount,
                   maxSizeMB, skipTags, urlStr, i, deleteReqs, out, fatal, inventory>>

\* lines 223-228
SizeDelete ==
    /\ pc = "size"
    /\ SizeLoopCond(tags)
    /\ ~InSkipTags(Oldest(tags).Name)
    /\ \E resp \in DeleteOutcomes :
         LET name == Oldest(tags).Name
         IN  /\ deleteReqs' = Append(deleteReqs, Request(name, resp))
             /\ IF deleteTag(resp)
                THEN /\ pc' = OnDeleteError("size", out, name).pc
                     /\ out' = OnDeleteError("size", out, name).out
                ELSE UNCHANGED <<pc, out>>
    /\ tags' = RemoveOldest(tags)
    /\ UNCHANGED <<requiredEnv, keepCountStr, maxSizeStr, skipFile, keepCount,
                   maxSizeMB, skipTags, urlStr, i, fatal, inventory>>

\* float64(n)/(1024*1024) printed with %.2f, as hundredths of a MB
HundredthsMB(n) ==
    (n \div BytesPerMB) * 100 + ((n % BytesPerMB) * 100 + BytesPerMB \div 2) \div BytesPerMB

\* lines 232-233: the line "Cleanup complete. Remaining images: %d, total size: %.2f MB"
SummaryLine(ts) ==
    [kind |-> "summary", remaining |-> Len(ts), totalSize |-> HundredthsMB(sumSize(ts))]

Summary ==
    /\ pc = "size"
    /\ ~SizeLoopCond(tags)
    /\ out' = Append(out, SummaryLine(tags))
    /\ pc' = "done"
    /\ UNCHANGED <<requiredEnv, keepCountStr, maxSizeStr, skipFile, keepCount,
                   maxSizeMB, skipTags, urlStr, tags, i, deleteReqs, fatal, inventory>>

Next ==
    \/ ReadConfig
    \/ LoadSkipList
    \/ Login
    \/ FetchPageOK
    \/ FetchPageFail
    \/ Sort
    \/ CountNotApplied
    \/ CountSkipProtected
    \/ CountDelete
    \/ CountEnd
    \/ SizeSkipProtected
    \/ SizeDelete
    \/ Summary

Spec == Init /\ [][Next]_vars

\* the process is sequential and never blocks for ever on a request that
\* the registry answers: some step is taken while one is possible
FairSpec == Spec /\ WF_vars(Next)

(***************************************************************************)
(* Vocabulary of the properties.                                           *)
(***************************************************************************)
Minus1 == <<"-", "1">>
NamesOf(ts) == {ts[j].Name : j \in 1..Len(ts)}
\* the names a DELETE request was issued for
Requested == {deleteReqs[j].name : j \in 1..Len(deleteReqs)}
\* the tags of the sorted listing that main's tags no longer holds
Dropped == Range(inventory) \ Range(tags)
\* the sum of FullSize over a set of tags
RECURSIVE TotalSize(_)
TotalSize(S) ==
    IF S = {} THEN 0
    ELSE LET t == CHOOSE x \in S : TRUE IN t.FullSize + TotalSize(S \ {t})
\* the size limit in bytes
Limit == maxSizeMB * BytesPerMB

(***************************************************************************)
(* C1: no DELETE request is ever issued, in the count pass or in the size  *)
(* pass, for a tag whose name is in the skip list, whatever the listing,   *)
(* the limits and the outcomes of the requests.                            *)
(***************************************************************************)
C1_ProtectedNeverDeleted ==
    \A j \in 1..Len(deleteReqs) : deleteReqs[j].name \notin skipTags

\* a protected tag was passed over, in each of the two passes, and another
\* tag was deleted
C1_Witness ==
    /\ pc = "done"
    /\ deleteReqs # <<>>
    /\ keepCount >= 0 /\ maxSizeMB > 0
    /\ \E t \in Range(SubSeq(inventory, keepCount + 1, Len(inventory))) :
         t.Name \in skipTags
    /\ \E t \in Range(SubSeq(inventory, 1, keepCount)) :
         t.Name \in skipTags /\ t \in Dropped

(***************************************************************************)
(* C2: when a page of the listing fails, the first or a later one, the run *)
(* aborts and issues no DELETE request; every DELETE request comes after a *)
(* listing that was read up to the page without a next-page pointer.       *)
(***************************************************************************)
C2_FetchAllOrNothing ==
    /\ fatal = "fetch" => pc = "aborted" /\ deleteReqs = <<>>
    /\ deleteReqs # <<>> => urlStr = NoUrl /\ fatal # "fetch"

\* the listing failed on its second page, after a first page of tags
C2_Witness ==
    /\ pc = "aborted"
    /\ fatal = "fetch"
    /\ urlStr = 2

(***************************************************************************)
(* C3: the value -1 turns a limit off.  KEEP_COUNT=-1 does not abort the   *)
(* run and leaves the count policy unbounded; MAX_SIZE_MB=-1 does not      *)
(* abort the run and leaves the size policy unbounded.                     *)
(***************************************************************************)
C3_MinusOneTurnsLimitOff ==
    /\ keepCountStr = Minus1 =>
         /\ fatal # "keep_count"
         /\ pc \notin {"env", "aborted"} => keepCount = -1
    /\ maxSizeStr = Minus1 =>
         /\ fatal # "max_size"
         /\ pc \notin {"env", "aborted"} => ~SizeLoopCond(tags)

(***************************************************************************)
(* C4: with a count limit k, an empty skip list and no size policy, what   *)
(* survives the count pass is the k most recently updated tags (up to the  *)
(* order of equal timestamps), min(k, n) of them for a listing of n tags,  *)
(* and a DELETE request is issued for every other tag.                     *)
(***************************************************************************)
C4_CountKeepsNewest ==
    (pc \in {"size", "done"} /\ keepCount >= 0 /\ skipTags = {} /\ maxSizeMB <= 0) =>
        /\ Len(tags) = Min(keepCount, Len(inventory))
        /\ Range(tags) \subseteq Range(inventory)
        /\ \A x \in Range(tags), y \in Dropped : x.LastUpdated >= y.LastUpdated
        /\ Requested = NamesOf(inventory) \ NamesOf(tags)

\* two of three tags were cut, both strictly older than the one kept
C4_Witness ==
    /\ pc = "done"
    /\ keepCount = 1 /\ skipTags = {} /\ maxSizeMB <= 0
    /\ Len(inventory) = 3 /\ Len(tags) = 1
    /\ \A y \in Dropped : tags[1].LastUpdated > y.LastUpdated

(***************************************************************************)
(* C5: with a size limit S > 0 and an empty skip list, the size pass ends  *)
(* with the total size of the surviving tags <= S or with no tag left; it  *)
(* removes the oldest tag each time, and only while the total exceeds S.   *)
(***************************************************************************)
C5_SizeDeleteStep ==
    (pc = "size" /\ skipTags = {} /\ tags' # tags) =>
        /\ TotalSize(Range(tags)) > Limit
        /\ \E t \in Range(tags) :
             /\ Range(tags') = Range(tags) \ {t}
             /\ \A x \in Range(tags) : t.LastUpdated <= x.LastUpdated
             /\ deleteReqs'[Len(deleteReqs')].name = t.Name
        /\ Len(deleteReqs') = Len(deleteReqs) + 1

C5_SizeWithinLimit ==
    /\ [](pc = "done" /\ maxSizeMB > 0 /\ skipTags = {} =>
            TotalSize(Range(tags)) <= Limit \/ tags = <<>>)
    /\ [][C5_SizeDeleteStep]_vars

\* the pass deleted two tags and stopped with one that fits
C5_Witness ==
    /\ pc = "done"
    /\ maxSizeMB > 0 /\ skipTags = {} /\ keepCount = -1
    /\ Len(inventory) = 3 /\ Len(tags) = 1 /\ Len(deleteReqs) = 2

(***************************************************************************)
(* C6: a failed DELETE (a transport error or a status other than 204)      *)
(* never aborts the run: whichever requests fail, a request is still       *)
(* issued for every other tag the two passes remove, and the run reaches   *)
(* the summary.                                                            *)
(***************************************************************************)
SomeDeleteFailed == \E j \in 1..Len(deleteReqs) : deleteReqs[j].err

C6_DeleteFailureNotFatal ==
    /\ [](SomeDeleteFailed => pc # "aborted")
    /\ [](pc \in {"size", "done"} =>
            \A t \in Dropped : ~InSkipTags(t.Name) => t.Name \in Requested)
    /\ (SomeDeleteFailed ~> pc = "done")

\* the first DELETE failed, two more were issued after it, and the run ended
C6_Witness ==
    /\ pc = "done"
    /\ Len(deleteReqs) = 3
    /\ deleteReqs[1].err
    /\ ~deleteReqs[3].err

(***************************************************************************)
(* C7 as the specification states it: the summary that ends the run lists  *)
(* every tag whose DELETE failed.                                          *)
(***************************************************************************)
\* the tag names a line of output mentions
Mentioned(line) == IF "name" \in DOMAIN line THEN {line.name} ELSE {}

C7_SummaryListsFailures ==
    pc = "done" =>
        \A j \in 1..Len(deleteReqs) :
            deleteReqs[j].err => deleteReqs[j].name \in Mentioned(out[Len(out)])

(***************************************************************************)
(* C7, amended: every failed DELETE is logged on a line of its own at the  *)
(* time it fails, in the order of the requests; the summary that ends the  *)
(* run holds two values only, the number of tags left in the working list  *)
(* and their total size in MB, and no list of failures.                    *)
(***************************************************************************)
FailedNames == [j \in 1..Len(SelectSeq(deleteReqs, LAMBDA r : r.err)) |->
                   SelectSeq(deleteReqs, LAMBDA r : r.err)[j].name]
ErrorLines == SelectSeq(out, LAMBDA l : l.kind = "error")
ErrorNames == [j \in 1..Len(ErrorLines) |-> ErrorLines[j].name]

\* h is n bytes in hundredths of a MB, rounded to the nearest
IsHundredthsOf(h, n) ==
    LET d == h - 100 * (n \div BytesPerMB)
        e == d * BytesPerMB - 100 * (n % BytesPerMB)
    IN  d \in 0..100 /\ 2 * e <= BytesPerMB /\ 2 * e >= 0 - BytesPerMB

C7_FailuresLoggedSummaryPlain ==
    /\ ErrorNames = FailedNames
    /\ pc = "done" =>
         LET s == out[Len(out)]
         IN  /\ DOMAIN s = {"kind", "remaining", "totalSize"}
             /\ s.kind = "summary"
             /\ s.remaining = Cardinality(Range(tags))
             /\ IsHundredthsOf(s.totalSize, TotalSize(Range(tags)))
             /\ \A j \in 1..(Len(out) - 1) : out[j].kind = "error"

\* two DELETEs failed, one succeeded, and the summary was written
C7_Witness ==
    /\ pc = "done"
    /\ Len(FailedNames) = 2
    /\ Len(deleteReqs) = 3
    /\ Len(out) = 3

(***************************************************************************)
(* C8: when the count policy applies, what survives the count pass is the  *)
(* first keepCount tags in recency order together with every protected tag *)
(* passed over among the others; a protected tag that was passed over      *)
(* stays in the set the size pass and the summary work on.  (Stated for    *)
(* runs without a size policy, where the summary sees what the count pass  *)
(* left.)                                                                  *)
(***************************************************************************)
C8_SkippedProtectedSurvive ==
    (pc \in {"size", "done"} /\ keepCount >= 0 /\ Len(inventory) > keepCount
        /\ maxSizeMB <= 0) =>
        Range(tags) =
            Range(SubSeq(inventory, 1, keepCount))
              \cup {t \in Range(SubSeq(inventory, keepCount + 1, Len(inventory))) :
                      t.Name \in skipTags}

(***************************************************************************)
(* C9 as the specification states it: in the size pass a protected oldest  *)
(* tag is passed over but its size still counts: the pass goes on deleting *)
(* until the total of everything not deleted, the protected tags passed    *)
(* over included, is within the limit or no unprotected tag remains, and   *)
(* the protected tags passed over are part of the final surviving set.     *)
(***************************************************************************)
\* the tags the size pass starts from
SizePassInput ==
    IF keepCount >= 0 /\ Len(inventory) > keepCount
    THEN SubSeq(inventory, 1, keepCount)
    ELSE inventory

C9_SizeStep ==
    (pc = "size" /\ tags' # tags) =>
        /\ TotalSize(Range(tags)) > Limit
        /\ tags' = SubSeq(tags, 1, Len(tags) - 1)
        /\ IF tags[Len(tags)].Name \in skipTags
           THEN deleteReqs' = deleteReqs
           ELSE /\ Len(deleteReqs') = Len(deleteReqs) + 1
                /\ deleteReqs'[Len(deleteReqs')].name = tags[Len(tags)].Name

C10_RunTerminates == (pc = "sort") ~> (pc = "done")

\* the size loop met a protected oldest tag, went on to delete, and ended
C10_Witness ==
    /\ pc = "done"
    /\ maxSizeMB > 0 /\ keepCount = -1
    /\ \E t \in Dropped : t.Name \in skipTags
    /\ deleteReqs # <<>>

====
